---- MODULE Spec2Model ----
(***************************************************************************)
(* Model of src/src/service_exporter.rs: the ServiceMetricsExporter that   *)
(* lists the labelled Docker containers, runs curl in each one through an  *)
(* exec, relabels every line of the output with the container's name and   *)
(* concatenates the results.                                               *)
(*                                                                         *)
(* Text is a sequence of one-character strings.  Option<T> is a sequence   *)
(* of length at most one: None is << >> and Some(x) is <<x>>.              *)
(***************************************************************************)
EXTENDS Integers, Sequences, FiniteSets, TLC

(***************************************************************************)
(* Bounds of the model.                                                    *)
(***************************************************************************)
MaxContainers == 2      \* containers in one discovery answer
MaxMsgLen == 0          \* bytes in a standard-output message, the samples apart
MaxLineLen == 3         \* characters of a line handed to the relabeler alone

(***************************************************************************)
(* Option and text helpers (Rust's std).                                   *)
(***************************************************************************)
None == << >>
Some(x) == <<x>>
is_none(o) == o = << >>
unwrap(o) == o[1]
unwrap_or(o, d) == IF o = << >> THEN d ELSE o[1]

NL == "\n"
WhiteSpace == {" ", "\t", "\r", NL}

\* str::split('\n'): the pieces between the separators; one piece (the
\* empty one) for the empty text, and an empty last piece after a trailing
\* separator.
RECURSIVE SplitFrom(_, _, _)
SplitFrom(s, sep, piece) ==
    IF s = << >> THEN <<piece>>
    ELSE IF Head(s) = sep THEN <<piece>> \o SplitFrom(Tail(s), sep, << >>)
    ELSE SplitFrom(Tail(s), sep, Append(piece, Head(s)))
split(s, sep) == SplitFrom(s, sep, << >>)

\* [String]::join(sep)
RECURSIVE join(_, _)
join(ls, sep) ==
    IF ls = << >> THEN << >>
    ELSE IF Len(ls) = 1 THEN ls[1]
    ELSE ls[1] \o <<sep>> \o join(Tail(ls), sep)

\* str::trim
RECURSIVE trim_start(_)
trim_start(s) ==
    IF s # << >> /\ Head(s) \in WhiteSpace THEN trim_start(Tail(s)) ELSE s
RECURSIVE trim_end(_)
trim_end(s) ==
    IF s # << >> /\ s[Len(s)] \in WhiteSpace
    THEN trim_end(SubSeq(s, 1, Len(s) - 1)) ELSE s
trim(s) == trim_end(trim_start(s))

starts_with(s, p) == Len(s) >= Len(p) /\ SubSeq(s, 1, Len(p)) = p

\* str::find(c): the 0-based position of the first c
find(s, c) ==
    IF \E i \in 1..Len(s) : s[i] = c
    THEN Some((CHOOSE i \in 1..Len(s) :
                 s[i] = c /\ \A j \in 1..(i - 1) : s[j] # c) - 1)
    ELSE None

\* str::split_at(mid)
split_at(s, mid) == <<SubSeq(s, 1, mid), SubSeq(s, mid + 1, Len(s))>>

\* String::from_utf8_lossy on the bytes of the model: an invalid byte becomes
\* U+FFFD, every other byte is the character it encodes.
BadByte == "xFF"
ReplacementChar == "uFFFD"
from_utf8_lossy(bytes) ==
    [i \in 1..Len(bytes) |->
        IF bytes[i] = BadByte THEN ReplacementChar ELSE bytes[i]]

(***************************************************************************)
(* Constants of the program.                                               *)
(***************************************************************************)
DEFAULT_SERVICE_PORT_PATH == <<"9", "1", "0", "0", "/", "m", "e", "t", "r", "i", "c", "s">>
UNKNOWN_SERVICE_NAME ==
    <<"u", "n", "k", "n", "o", "w", "n", "-", "s", "e", "r", "v", "i", "c", "e">>
ECS_CONTAINER_NAME_LABEL == "com.amazonaws.ecs.container-name"
\* ServiceMetricsExporter.label_has_metrics, the configured marker label
label_has_metrics == "metrics.port"
\* the text of format!("container_name={}", ..) before the name
CONTAINER_NAME_EQ ==
    <<"c", "o", "n", "t", "a", "i", "n", "e", "r", "_", "n", "a", "m", "e", "=">>
\* the text of format!("http://localhost:{}", ..) before the port and path
CURL_URL_PREFIX ==
    <<"h", "t", "t", "p", ":", "/", "/", "l", "o", "c", "a", "l", "h", "o", "s", "t", ":">>

(***************************************************************************)
(* add_service_name_to_metric_line                                         *)
(***************************************************************************)
service_label(container_name) == CONTAINER_NAME_EQ \o container_name

\* The relabeler with the test for a comment made on the untrimmed line.
add_service_name_untrimmed(line, container_name) ==
    IF starts_with(line, <<"#">>)
    THEN [ret |-> line, info |-> FALSE]
    ELSE IF ~is_none(find(line, "{"))
    THEN LET parts == split_at(line, unwrap(find(line, "{")) + 1)
         IN  [ret |-> parts[1] \o service_label(container_name) \o <<",">>
                        \o parts[2],
              info |-> FALSE]
    ELSE IF ~is_none(find(line, " "))
    THEN LET parts == split_at(line, unwrap(find(line, " ")))
         IN  [ret |-> parts[1] \o <<"{">> \o service_label(container_name)
                        \o <<"}">> \o parts[2],
              info |-> FALSE]
    ELSE [ret |-> line, info |-> TRUE]

\* The relabeler with the search for a space made before the one for a brace.
add_service_name_space_first(line, container_name) ==
    IF starts_with(trim(line), <<"#">>)
    THEN [ret |-> line, info |-> FALSE]
    ELSE IF ~is_none(find(line, " "))
    THEN LET parts == split_at(line, unwrap(find(line, " ")))
         IN  [ret |-> parts[1] \o <<"{">> \o service_label(container_name)
                        \o <<"}">> \o parts[2],
              info |-> FALSE]
    ELSE IF ~is_none(find(line, "{"))
    THEN LET parts == split_at(line, unwrap(find(line, "{")) + 1)
         IN  [ret |-> parts[1] \o service_label(container_name) \o <<",">>
                        \o parts[2],
              info |-> FALSE]
    ELSE [ret |-> line, info |-> TRUE]

\* The relabeler with the line split after the space instead of before it.
add_service_name_after_space(line, container_name) ==
    IF starts_with(trim(line), <<"#">>)
    THEN [ret |-> line, info |-> FALSE]
    ELSE IF ~is_none(find(line, "{"))
    THEN LET parts == split_at(line, unwrap(find(line, "{")) + 1)
         IN  [ret |-> parts[1] \o service_label(container_name) \o <<",">>
                        \o parts[2],
              info |-> FALSE]
    ELSE IF ~is_none(find(line, " "))
    THEN LET parts == split_at(line, unwrap(find(line, " ")) + 1)
         IN  [ret |-> parts[1] \o <<"{">> \o service_label(container_name)
                        \o <<"}">> \o parts[2],
              info |-> FALSE]
    ELSE [ret |-> line, info |-> TRUE]

\* The relabeler with a label group added to a line it cannot parse.
add_service_name_weird_labeled(line, container_name) ==
    IF starts_with(trim(line), <<"#">>)
    THEN [ret |-> line, info |-> FALSE]
    ELSE IF ~is_none(find(line, "{"))
    THEN LET parts == split_at(line, unwrap(find(line, "{")) + 1)
         IN  [ret |-> parts[1] \o service_label(container_name) \o <<",">>
                        \o parts[2],
              info |-> FALSE]
    ELSE IF ~is_none(find(line, " "))
    THEN LET parts == split_at(line, unwrap(find(line, " ")))
         IN  [ret |-> parts[1] \o <<"{">> \o service_label(container_name)
                        \o <<"}">> \o parts[2],
              info |-> FALSE]
    ELSE [ret |-> line \o <<"{">> \o service_label(container_name) \o <<"}">>,
          info |-> TRUE]

\* The returned line, and whether the info! of line 180 was reached.
add_service_name_to_metric_line(line, container_name) ==
    IF starts_with(trim(line), <<"#">>)
    THEN [ret |-> line, info |-> FALSE]
    ELSE IF ~is_none(find(line, "{"))
    THEN LET parts == split_at(line, unwrap(find(line, "{")) + 1)
         IN  [ret |-> parts[1] \o service_label(container_name) \o <<",">>
                        \o parts[2],
              info |-> FALSE]
    ELSE IF ~is_none(find(line, " "))
    THEN LET parts == split_at(line, unwrap(find(line, " ")))
         IN  [ret |-> parts[1] \o <<"{">> \o service_label(container_name)
                        \o <<"}">> \o parts[2],
              info |-> FALSE]
    ELSE [ret |-> line, info |-> TRUE]

(***************************************************************************)
(* The answers of the Docker daemon (bollard).                             *)
(***************************************************************************)
Ok(v) == [tag |-> "Ok", val |-> v]
Err == [tag |-> "Err"]
is_err(r) == r.tag = "Err"

\* HashMap::get
get(map, key) == IF key \in DOMAIN map THEN Some(map[key]) ELSE None
EmptyHashMap == [k \in {} |-> << >>]

\* ContainerSummary.labels of the containers of the model: no label map; the
\* ECS name "w" and a marker value "80"; a marker with an empty value and no
\* ECS name.
LabelOptions ==
    { None,
      Some([k \in {ECS_CONTAINER_NAME_LABEL, label_has_metrics} |->
              IF k = ECS_CONTAINER_NAME_LABEL THEN <<"w">> ELSE <<"8", "0">>]),
      Some([k \in {label_has_metrics} |-> << >>]) }

\* Result<Vec<ContainerSummary>, Error> of list_containers.  The daemon gives
\* every container an id, and the ids of one answer differ.
ContainerLists ==
    UNION { { [i \in 1..n |-> [id |-> Some(i), labels |-> ls[i]]] :
                ls \in [1..n -> LabelOptions] } : n \in 0..MaxContainers }
ListAnswers == {Err} \cup {Ok(cs) : cs \in ContainerLists}

\* LogOutput: the chunks of the attached stream.  Only a StdOut message is
\* ever read.
\* The messages of the model: every text of at most MaxMsgLen bytes, and
\* samples: a line of one byte, a message with an invalid byte, a line that
\* ends with a newline, and two different lines with no newline at the end.
PipeBytes == {"a", " ", NL}
LongerMessages ==
    { <<"a">>, <<BadByte>>, <<"a", " ", "a", NL>>, <<"a", NL, " ", "a">> }
Messages ==
    UNION { [1..n -> PipeBytes] : n \in 0..MaxMsgLen } \cup LongerMessages
Chunks == { [kind |-> "StdOut", message |-> m] : m \in Messages }
            \cup { [kind |-> k, message |-> <<"a">>] :
                      k \in {"StdErr", "StdIn", "Console"} }
\* Result<Vec<LogOutput>, Error> of try_collect: an error, no chunk, one
\* chunk, or a first chunk followed by one more.
LaterChunks == { [kind |-> "StdOut", message |-> <<"a">>],
                 [kind |-> "StdErr", message |-> <<"a">>] }
Logs == {<< >>} \cup { <<c>> : c \in Chunks }
                \cup { <<c, d>> : c \in Chunks, d \in LaterChunks }
CollectAnswers == {Err} \cup { Ok(log) : log \in Logs }

StartAnswers == {"Attached", "Detached", "Err"}

\* Result<ExecInspectResponse, Error>, by its exit_code: Option<i64>
ExitCodes == {0, 1}
InspectAnswers == {Err, Ok(None)} \cup { Ok(Some(c)) : c \in ExitCodes }

(***************************************************************************)
(* The pieces of get_combined_metrics_from_all_containers and of its       *)
(* helpers that compute a value.                                           *)
(***************************************************************************)
\* export_metrics: None is rejected, Some(metrics) is the body
export_metrics_result(metrics_opt) ==
    IF is_none(metrics_opt) THEN Err ELSE Ok(unwrap(metrics_opt))

\* lines 52-56 with the name read from the marker label
aws_container_name_of_marker(container) ==
    unwrap_or(get(unwrap_or(container.labels, EmptyHashMap),
                  label_has_metrics),
              UNKNOWN_SERVICE_NAME)

\* lines 52-56
aws_container_name_of(container) ==
    unwrap_or(get(unwrap_or(container.labels, EmptyHashMap),
                  ECS_CONTAINER_NAME_LABEL),
              UNKNOWN_SERVICE_NAME)

\* lines 102-108: the URL curl is given
curl_url_of(container) ==
    CURL_URL_PREFIX \o
        unwrap_or(get(unwrap_or(container.labels, EmptyHashMap),
                      label_has_metrics),
                  DEFAULT_SERVICE_PORT_PATH)

\* lines 129-147 with the last chunk read instead of the first
output_lines_of_last(log) ==
    IF log = << >> THEN None
    ELSE IF log[Len(log)].kind = "StdOut"
    THEN Some(split(from_utf8_lossy(log[Len(log)].message), NL))
    ELSE Some(<< >>)

\* lines 129-147: the lines of the collected chunks
output_lines(log) ==
    IF log = << >> THEN None
    ELSE IF log[1].kind = "StdOut"
    THEN Some(split(from_utf8_lossy(log[1].message), NL))
    ELSE Some(<< >>)

\* lines 123-147
collect_output(answer) ==
    IF is_err(answer) THEN None ELSE output_lines(answer.val)

\* lines 66-72 with an exit code that is missing read as 0
exit_code_of_missing_is_zero(answer) ==
    IF is_err(answer) THEN -1 ELSE unwrap_or(answer.val, 0)

\* lines 66-72
exit_code_of(answer) ==
    IF is_err(answer) THEN -1 ELSE unwrap_or(answer.val, -1)

\* line 74 with the exit code left out of the test
is_skipped_no_exit_code(exit_code, curl_output) == is_none(curl_output)

\* line 74
is_skipped(exit_code, curl_output) == exit_code # 0 \/ is_none(curl_output)

\* lines 79-82 with the empty lines left out
container_metrics_no_empty(lines, name) ==
    join(SelectSeq([i \in 1..Len(lines) |->
                      add_service_name_to_metric_line(lines[i], name).ret],
                   LAMBDA l : l # << >>), NL)

\* lines 79-82: the text one container adds
container_metrics(lines, name) ==
    join([i \in 1..Len(lines) |->
            add_service_name_to_metric_line(lines[i], name).ret], NL)

\* line 79 with the new text put in front of the old
append_metrics_in_front(metrics_so_far, text) == text \o metrics_so_far

\* line 79: metrics += ..
append_metrics(metrics_so_far, text) == metrics_so_far \o text

\* the lines of one container the info! of line 180 is reached for
weird_lines(lines) ==
    SelectSeq(lines,
              LAMBDA l : add_service_name_to_metric_line(l, << >>).info)

(***************************************************************************)
(* State.                                                                  *)
(***************************************************************************)
VARIABLES
    pc,          \* where export_metrics is: "idle", the await it is suspended
                 \* at, or "returned"
    containers,  \* the containers the for loop has still to take
    metrics,     \* the String the loop appends to
    frame,       \* the locals of the iteration in progress (None outside one)
    result,      \* what export_metrics returned (None before it returns)
    exec_count,  \* execs the daemon has created; its next id is one more
    discovery,   \* how list_containers answered: None before it did, then
                 \* Err or Ok(number of containers)
    hist,        \* per finished container: what the iteration computed
    infos,       \* the lines the info! of line 180 logged
    calls,       \* the calls export_metrics made on the daemon, in order,
                 \* each with the answer it returned with
    other,       \* a second invocation of export_metrics, when there is
                 \* one: its locals while the first one runs
    r_in,        \* relabeling alone: the lines and the name given
    r_out        \* relabeling alone: what came back (None before the call)

vars == <<pc, containers, metrics, frame, result, exec_count, discovery,
          hist, infos, calls, other, r_in, r_out>>
pipeline_vars ==
    <<pc, containers, metrics, frame, result, exec_count, discovery, hist,
      infos, calls>>

\* A call on the daemon is made: list_containers, create_exec (on a
\* container), and on the exec of a container start_exec, try_collect of the
\* attached stream and inspect_exec.  A call that has no container or no
\* exec carries 0, and the call is pending until it returns.
Call(op, container_id, exec_id) ==
    [op |-> op, container_id |-> container_id, exec_id |-> exec_id,
     res |-> "pending"]
\* The pending call, the last one made, returns with an answer of some
\* kind; create_exec returns with an exec.
Returns(trace, res) == [trace EXCEPT ![Len(trace)].res = res]
Creates(trace, exec_id) ==
    [trace EXCEPT ![Len(trace)].res = "Ok", ![Len(trace)].exec_id = exec_id]
relabel_vars == <<r_in, r_out>>

\* The locals of an iteration at its first await (lines 51-57).
NewFrame(container) ==
    [ container_id       |-> unwrap(container.id),
      labels             |-> container.labels,
      aws_container_name |-> aws_container_name_of(container),
      curl_url           |-> curl_url_of(container),
      exec_id            |-> None,
      start              |-> None,
      log                |-> None,
      curl_output        |-> None,
      warned             |-> FALSE ]

\* How the attached stream ended: not collected, with an error, with no
\* chunk, or with a first chunk of some kind.
stream_of(log_opt) ==
    IF is_none(log_opt) THEN "NotCollected"
    ELSE IF is_err(unwrap(log_opt)) THEN "Err"
    ELSE IF unwrap(log_opt).val = << >> THEN "Empty"
    ELSE unwrap(log_opt).val[1].kind

\* What is kept of an iteration when it ends; of the lines retrieved, those
\* of a container whose text was appended.
HistEntry(f, created, inspect, exit_code, appended, text, warned) ==
    [ container_id       |-> f.container_id,
      aws_container_name |-> f.aws_container_name,
      exec_id            |-> f.exec_id,
      created            |-> created,
      start              |-> f.start,
      stream             |-> stream_of(f.log),
      has_output         |-> ~is_none(f.curl_output),
      lines              |-> IF appended THEN unwrap(f.curl_output) ELSE << >>,
      inspect            |-> inspect,
      exit_code          |-> exit_code,
      appended           |-> appended,
      text               |-> text,
      warned             |-> warned ]

\* The for loop takes its next container, or the function returns (line 85).
NextIteration(rest, m, trace) ==
    /\ metrics' = m
    /\ IF rest = << >>
       THEN /\ pc' = "returned"
            /\ result' = Some(export_metrics_result(Some(m)))
            /\ containers' = << >>
            /\ frame' = None
            /\ calls' = trace
       ELSE /\ pc' = "await_create"
            /\ result' = result
            /\ containers' = Tail(rest)
            /\ frame' = Some(NewFrame(Head(rest)))
            /\ calls' = Append(trace,
                              Call("create_exec", unwrap(Head(rest).id), 0))

(***************************************************************************)
(* Actions: export_metrics from one await to the next.                     *)
(***************************************************************************)
Init ==
    /\ pc = "idle"
    /\ containers = << >>
    /\ metrics = << >>
    /\ frame = None
    /\ result = None
    /\ exec_count = 0
    /\ discovery = None
    /\ hist = << >>
    /\ infos = << >>
    /\ calls = << >>
    /\ other = None
    /\ r_in = None
    /\ r_out = None

\* export_metrics is called and awaits list_containers (lines 28-39, 88-99)
ExportMetrics ==
    /\ pc = "idle"
    /\ pc' = "await_list"
    /\ calls' = <<Call("list_containers", 0, 0)>>
    /\ UNCHANGED <<containers, metrics, frame, result, exec_count, discovery,
                   hist, infos, relabel_vars, other>>

\* The answers of list_containers that are explored: all of them for one
\* invocation, and those of at most one container when there are two
\* invocations.
ListAnswersFor(second) ==
    IF is_none(second) THEN ListAnswers
    ELSE { a \in ListAnswers : is_err(a) \/ Len(a.val) <= 1 }

\* list_containers answers, with line 48 left out: the buffer is taken as
\* it is found
ListContainersReturns_keeps_buffer ==
    /\ pc = "await_list"
    /\ \E answer \in ListAnswersFor(other) :
          IF is_err(answer)
          THEN /\ pc' = "returned"
               /\ result' = Some(export_metrics_result(None))
               /\ discovery' = Some(Err)
               /\ calls' = Returns(calls, "Err")
               /\ UNCHANGED <<containers, metrics, frame>>
          ELSE /\ discovery' = Some(Ok(Len(answer.val)))
               /\ NextIteration(answer.val, metrics,
                                Returns(calls, "Ok"))
    /\ UNCHANGED <<exec_count, hist, infos, relabel_vars, other>>

\* list_containers answers (lines 39-57)
ListContainersReturns ==
    /\ pc = "await_list"
    /\ \E answer \in ListAnswersFor(other) :
          IF is_err(answer)
          THEN /\ pc' = "returned"
               /\ result' = Some(export_metrics_result(None))
               /\ discovery' = Some(Err)
               /\ calls' = Returns(calls, "Err")
               /\ UNCHANGED <<containers, metrics, frame>>
          ELSE /\ discovery' = Some(Ok(Len(answer.val)))
               /\ NextIteration(answer.val, << >>,
                                Returns(calls, "Ok"))
    /\ UNCHANGED <<exec_count, hist, infos, relabel_vars, other>>

\* create_exec answers, with lines 59-62 giving up on the request (return
\* None) where the code goes on to the next container
CreateExecReturns_abort ==
    /\ pc = "await_create"
    /\ \E answer \in {Err, Ok(exec_count + 1)} :
          IF is_err(answer)
          THEN /\ hist' = Append(hist,
                     HistEntry(unwrap(frame), FALSE, None, None, FALSE,
                               << >>, TRUE))
               /\ pc' = "returned"
               /\ result' = Some(export_metrics_result(None))
               /\ frame' = None
               /\ calls' = Returns(calls, "Err")
               /\ UNCHANGED <<exec_count, containers, metrics>>
          ELSE /\ frame' = Some([unwrap(frame) EXCEPT !.exec_id = Some(answer.val)])
               /\ exec_count' = exec_count + 1
               /\ pc' = "await_start"
               /\ calls' = Append(Creates(calls, answer.val),
                        Call("start_exec", unwrap(frame).container_id,
                             answer.val))
               /\ UNCHANGED <<containers, metrics, result, hist>>
    /\ UNCHANGED <<discovery, infos, relabel_vars, other>>

\* create_exec answers, with a second create_exec on the same container
\* after a first that failed, where lines 59-62 go on to the next container
CreateExecReturns_retry ==
    /\ pc = "await_create"
    /\ \E answer \in {Err, Ok(exec_count + 1)} :
          IF is_err(answer)
          THEN IF Len(calls) > 2 /\ calls[Len(calls) - 1].op = "create_exec"
               THEN /\ hist' = Append(hist,
                          HistEntry(unwrap(frame), FALSE, None, None, FALSE,
                                    << >>, TRUE))
                    /\ NextIteration(containers, metrics,
                                     Returns(calls, "Err"))
                    /\ UNCHANGED exec_count
               ELSE /\ calls' = Append(Returns(calls, "Err"),
                             Call("create_exec", unwrap(frame).container_id,
                                  0))
                    /\ UNCHANGED <<pc, frame, containers, metrics, result,
                                   hist, exec_count>>
          ELSE /\ frame' = Some([unwrap(frame) EXCEPT !.exec_id = Some(answer.val)])
               /\ exec_count' = exec_count + 1
               /\ pc' = "await_start"
               /\ calls' = Append(Creates(calls, answer.val),
                        Call("start_exec", unwrap(frame).container_id,
                             answer.val))
               /\ UNCHANGED <<containers, metrics, result, hist>>
    /\ UNCHANGED <<discovery, infos, relabel_vars, other>>

\* create_exec answers (lines 57-65, 120)
CreateExecReturns ==
    /\ pc = "await_create"
    /\ \E answer \in {Err, Ok(exec_count + 1)} :
          IF is_err(answer)
          THEN /\ hist' = Append(hist,
                     HistEntry(unwrap(frame), FALSE, None, None, FALSE,
                               << >>, TRUE))
               /\ NextIteration(containers, metrics, Returns(calls, "Err"))
               /\ UNCHANGED exec_count
          ELSE /\ frame' = Some([unwrap(frame) EXCEPT !.exec_id = Some(answer.val)])
               /\ exec_count' = exec_count + 1
               /\ pc' = "await_start"
               /\ calls' = Append(Creates(calls, answer.val),
                        Call("start_exec", unwrap(frame).container_id,
                             answer.val))
               /\ UNCHANGED <<containers, metrics, result, hist>>
    /\ UNCHANGED <<discovery, infos, relabel_vars, other>>

\* start_exec answers, with line 66 reached as soon as the exec is attached:
\* the try_collect of line 123 left out
StartExecReturns_no_collect ==
    /\ pc = "await_start"
    /\ \E answer \in StartAnswers :
          /\ frame' = Some([unwrap(frame) EXCEPT
                              !.start = Some(answer),
                              !.warned = TRUE])
          /\ pc' = "await_inspect"
          /\ calls' = Append(Returns(calls, answer),
                   Call("inspect_exec", unwrap(frame).container_id,
                        unwrap(unwrap(frame).exec_id)))
    /\ UNCHANGED <<containers, metrics, result, exec_count, discovery, hist,
                   infos, relabel_vars, other>>

\* start_exec answers (lines 120-123, 149-157, 66)
StartExecReturns ==
    /\ pc = "await_start"
    /\ \E answer \in StartAnswers :
          /\ frame' = Some([unwrap(frame) EXCEPT
                              !.start = Some(answer),
                              !.warned = answer # "Attached"])
          /\ pc' = IF answer = "Attached" THEN "await_collect"
                   ELSE "await_inspect"
          /\ calls' = Append(Returns(calls, answer),
                   Call(IF answer = "Attached" THEN "try_collect"
                        ELSE "inspect_exec",
                        unwrap(frame).container_id,
                        unwrap(unwrap(frame).exec_id)))
    /\ UNCHANGED <<containers, metrics, result, exec_count, discovery, hist,
                   infos, relabel_vars, other>>

\* the attached stream ends (lines 123-148, 66)
CollectReturns ==
    /\ pc = "await_collect"
    /\ \E answer \in CollectAnswers :
          /\ frame' = Some([unwrap(frame) EXCEPT
                              !.log = Some(answer),
                              !.curl_output = collect_output(answer),
                              !.warned = answer = Ok(<< >>)])
          /\ calls' = Append(Returns(calls, answer.tag),
                   Call("inspect_exec", unwrap(frame).container_id,
                        unwrap(unwrap(frame).exec_id)))
    /\ pc' = "await_inspect"
    /\ UNCHANGED <<containers, metrics, result, exec_count, discovery, hist,
                   infos, relabel_vars, other>>

\* inspect_exec answers (lines 66-83)
InspectExecReturns ==
    /\ pc = "await_inspect"
    /\ \E answer \in InspectAnswers :
          LET f == unwrap(frame)
              exit_code == exit_code_of(answer)
              trace == Returns(calls, answer.tag)
          IN  IF is_skipped(exit_code, f.curl_output)
              THEN /\ hist' = Append(hist,
                         HistEntry(f, TRUE, Some(answer), Some(exit_code),
                                   FALSE, << >>, TRUE))
                   /\ infos' = infos
                   /\ NextIteration(containers, metrics, trace)
              ELSE LET text == container_metrics(unwrap(f.curl_output),
                                                 f.aws_container_name)
                   IN  /\ hist' = Append(hist,
                             HistEntry(f, TRUE, Some(answer), Some(exit_code),
                                       TRUE, text, f.warned))
                       /\ infos' = infos \o weird_lines(unwrap(f.curl_output))
                       /\ NextIteration(containers,
                                        append_metrics(metrics, text), trace)
    /\ UNCHANGED <<exec_count, discovery, relabel_vars, other>>

\* the steps of export_metrics, and one more: a deadline that ends the
\* invocation with a rejection while a call is pending
Next_with_deadline ==
    \/ ExportMetrics
    \/ ListContainersReturns
    \/ CreateExecReturns
    \/ StartExecReturns
    \/ CollectReturns
    \/ InspectExecReturns
    \/ /\ pc \in {"await_list", "await_create", "await_start",
                   "await_collect", "await_inspect"}
       /\ pc' = "returned"
       /\ result' = Some(export_metrics_result(None))
       /\ frame' = None
       /\ UNCHANGED <<containers, metrics, exec_count, discovery, hist,
                      infos, calls, relabel_vars, other>>

Next ==
    \/ ExportMetrics
    \/ ListContainersReturns
    \/ CreateExecReturns
    \/ StartExecReturns
    \/ CollectReturns
    \/ InspectExecReturns

Spec == Init /\ [][Next]_vars

(***************************************************************************)
(* Two invocations of export_metrics on one ServiceMetricsExporter: two     *)
(* futures, each with its own locals, that the executor runs in turn from  *)
(* one await to the next.  The exporter (lines 14-17) has the connection   *)
(* to the daemon and the marker label, and no field that is written.       *)
(***************************************************************************)
\* the locals of the invocation that runs
locals ==
    [ pc |-> pc, containers |-> containers, metrics |-> metrics,
      frame |-> frame, result |-> result, discovery |-> discovery,
      hist |-> hist, infos |-> infos, calls |-> calls ]

\* What the memory of a buffer holds before line 48 makes it: nothing, or
\* the text of an invocation that is over.
Leftovers == { << >>, <<"a">> }

InitTwo ==
    /\ pc = "idle"
    /\ containers = << >>
    /\ metrics \in Leftovers
    /\ frame = None
    /\ result = None
    /\ exec_count = 0
    /\ discovery = None
    /\ hist = << >>
    /\ infos = << >>
    /\ calls = << >>
    /\ other \in { Some([ pc |-> "idle", containers |-> << >>, metrics |-> m,
                          frame |-> None, result |-> None,
                          discovery |-> None, hist |-> << >>,
                          infos |-> << >>, calls |-> << >> ]) :
                      m \in Leftovers }
    /\ r_in = None
    /\ r_out = None

\* the executor goes from one invocation to the other, with the buffer of
\* line 48 being one that both invocations write
Switch_shared_buffer ==
    /\ other # None
    /\ other' = Some([locals EXCEPT !.metrics = unwrap(other).metrics])
    /\ pc' = unwrap(other).pc
    /\ containers' = unwrap(other).containers
    /\ metrics' = metrics
    /\ frame' = unwrap(other).frame
    /\ result' = unwrap(other).result
    /\ discovery' = unwrap(other).discovery
    /\ hist' = unwrap(other).hist
    /\ infos' = unwrap(other).infos
    /\ calls' = unwrap(other).calls
    /\ UNCHANGED <<exec_count, relabel_vars>>

\* the executor goes from one invocation to the other: the one that ran
\* keeps its locals, the other one finds its own
Switch ==
    /\ other # None
    /\ other' = Some(locals)
    /\ pc' = unwrap(other).pc
    /\ containers' = unwrap(other).containers
    /\ metrics' = unwrap(other).metrics
    /\ frame' = unwrap(other).frame
    /\ result' = unwrap(other).result
    /\ discovery' = unwrap(other).discovery
    /\ hist' = unwrap(other).hist
    /\ infos' = unwrap(other).infos
    /\ calls' = unwrap(other).calls
    /\ UNCHANGED <<exec_count, relabel_vars>>

NextTwo ==
    \/ ExportMetrics
    \/ ListContainersReturns
    \/ CreateExecReturns
    \/ StartExecReturns
    \/ CollectReturns
    \/ InspectExecReturns
    \/ Switch

SpecTwo == InitTwo /\ [][NextTwo]_vars

\* Every call on the daemon that is pending returns in the end, and the
\* executor resumes the future when it does (the .await of lines 30, 39,
\* 57, 65, 66, 98, 116, 120, 123).
CallsReturn ==
    /\ WF_vars(ListContainersReturns)
    /\ WF_vars(CreateExecReturns)
    /\ WF_vars(StartExecReturns)
    /\ WF_vars(CollectReturns)
    /\ WF_vars(InspectExecReturns)

SpecLive == Init /\ [][Next]_vars /\ CallsReturn

(***************************************************************************)
(* The relabeling alone: lines 79-82 applied to given lines and a given    *)
(* name.                                                                   *)
(***************************************************************************)
\* the two sample lines of the documentation, and the name they are given
ExampleLabeled ==
    <<"h", "t", "t", "p", "_", "r", "e", "q", "u", "e", "s", "t", "s", "_",
      "t", "o", "t", "a", "l", "{", "m", "e", "t", "h", "o", "d", "=",
      "\"", "G", "E", "T", "\"", "}", " ", "5">>
ExampleUnlabeled ==
    <<"h", "t", "t", "p", "_", "r", "e", "q", "u", "e", "s", "t", "s", "_",
      "t", "o", "t", "a", "l", " ", "5">>
ExampleName == <<"w", "e", "b", "1">>

LineChars == {"a", "#", "{", " ", "\t"}
Lines == UNION { [1..n -> LineChars] : n \in 0..MaxLineLen }
            \cup {ExampleLabeled, ExampleUnlabeled}
\* lines that stand before or after the line under test
OtherLines == { << >>, <<"a", " ", "a">>, <<"#">> }
LineLists == { <<l>> : l \in Lines }
                \cup { <<l, o>> : l \in Lines, o \in OtherLines }
                \cup { <<o, l>> : l \in Lines, o \in OtherLines }
Names == { <<"w">>, ExampleName, UNKNOWN_SERVICE_NAME }

InitRelabel ==
    /\ pc = "idle"
    /\ containers = << >>
    /\ metrics = << >>
    /\ frame = None
    /\ result = None
    /\ exec_count = 0
    /\ discovery = None
    /\ hist = << >>
    /\ infos = << >>
    /\ calls = << >>
    /\ other = None
    /\ r_in \in { Some([lines |-> ls, name |-> n]) :
                    ls \in LineLists, n \in Names }
    /\ r_out = None

\* lines 79-82 on the given lines: what each call of the relabeler returned,
\* the joined text, and the lines logged by the info! of line 180
RelabelLines ==
    /\ r_in # None
    /\ r_out = None
    /\ LET lines == unwrap(r_in).lines
           name == unwrap(r_in).name
       IN  r_out' = Some(
             [ rets  |-> [i \in 1..Len(lines) |->
                            add_service_name_to_metric_line(lines[i], name).ret],
               text  |-> container_metrics(lines, name),
               infos |-> weird_lines(lines) ])
    /\ UNCHANGED <<pipeline_vars, r_in, other>>

NextRelabel == RelabelLines

SpecRelabel == InitRelabel /\ [][NextRelabel]_vars

(***************************************************************************)
(* What the claims speak of, said from the daemon's answers.               *)
(***************************************************************************)
Returned == pc = "returned"
ReturnedOk == pc = "returned" /\ ~is_err(unwrap(result))
Body == unwrap(result).val

\* The lines retrieved in an iteration, from the answers start_exec and
\* try_collect gave: those of the first chunk when it is standard output.
Retrieved(f) ==
    IF /\ f.start = Some("Attached")
       /\ ~is_none(f.log)
       /\ ~is_err(unwrap(f.log))
       /\ unwrap(f.log).val # << >>
       /\ unwrap(f.log).val[1].kind = "StdOut"
    THEN split(from_utf8_lossy(unwrap(f.log).val[1].message), NL)
    ELSE << >>

\* The stream gave chunks at all (whatever their kind).
GotChunks(f) ==
    /\ f.start = Some("Attached")
    /\ ~is_none(f.log)
    /\ ~is_err(unwrap(f.log))
    /\ unwrap(f.log).val # << >>

Relabeled(lines, name) ==
    [i \in 1..Len(lines) |->
        add_service_name_to_metric_line(lines[i], name).ret]

\* A finished container whose scrape failed: no exec, no chunks, or an exit
\* status that is not zero.
Failed(e) ==
    \/ ~e.created
    \/ e.start # Some("Attached")
    \/ e.stream \in {"Err", "Empty"}
    \/ e.inspect # Some(Ok(Some(0)))

\* A step that ends the iteration of a container.
Finishes == Len(hist') = Len(hist) + 1
Finished == hist'[Len(hist')]

RECURSIVE Flatten(_)
Flatten(seqs) ==
    IF seqs = << >> THEN << >> ELSE Head(seqs) \o Flatten(Tail(seqs))

(***************************************************************************)
(* C1                                                                      *)
(***************************************************************************)
\* C1: export_metrics returns a rejection if and only if list_containers
\* answered with an error; after a list of containers, whatever create, start,
\* collect and inspect answer, what it returns is a success.
C1_RejectedIffDiscoveryFailed ==
    /\ Returned <=> result # None
    /\ Returned =>
         /\ discovery # None
         /\ is_err(unwrap(result)) <=> is_err(unwrap(discovery))

\* a success returned although an exec could not be created and an inspect
\* failed
C1_Witness ==
    /\ ReturnedOk
    /\ \E i \in 1..Len(hist) : ~hist[i].created
    /\ \E i \in 1..Len(hist) : hist[i].inspect = Some(Err)

(***************************************************************************)
(* C2                                                                      *)
(***************************************************************************)
\* C2: the lines of a container are appended if and only if its exit status
\* is zero and at least one line was retrieved; in every other case the
\* container adds nothing and a warning that names it is logged.
C2_AppendedIffZeroAndLines ==
    \A i \in 1..Len(hist) :
        LET e == hist[i]
            accepted == /\ e.inspect = Some(Ok(Some(0)))
                        /\ e.stream = "StdOut"
        IN  /\ accepted <=> (e.appended /\ Len(e.lines) >= 1)
            /\ ~accepted => (e.text = << >> /\ e.warned)

(***************************************************************************)
(* C3                                                                      *)
(***************************************************************************)
\* C3: a container whose scrape fails adds nothing, and the loop goes on: the
\* next container is taken (or, after the last one, the text is returned), and
\* a container that scrapes successfully has all its relabeled lines appended,
\* whatever failed before it.
C3_Step ==
    Finishes =>
        LET f == unwrap(frame)
            e == Finished
            failed == \/ ~e.created
                      \/ ~GotChunks(f)
                      \/ e.inspect # Some(Ok(Some(0)))
        IN  /\ failed => metrics' = metrics
            /\ ~failed =>
                 metrics' = metrics \o
                    join(Relabeled(Retrieved(f), f.aws_container_name), NL)
            /\ containers # << >> =>
                 /\ pc' = "await_create"
                 /\ containers' = Tail(containers)
                 /\ unwrap(frame').container_id = unwrap(Head(containers).id)
            /\ containers = << >> =>
                 /\ pc' = "returned"
                 /\ result' = Some(Ok(metrics'))
C3_FailureDoesNotStopTheLoop == [][C3_Step]_vars

\* a container with lines and a non-zero exit status, then a container
\* whose lines are the whole of the returned text
C3_Witness ==
    /\ ReturnedOk
    /\ \E i, j \in 1..Len(hist) :
          /\ i < j
          /\ hist[i].inspect = Some(Ok(Some(1)))
          /\ hist[i].stream = "StdOut"
          /\ hist[j].appended
          /\ hist[j].text # << >>
          /\ Body = hist[j].text

(***************************************************************************)
(* C4                                                                      *)
(***************************************************************************)
\* C4: the returned text is the relabeled lines of the accepted containers,
\* each line once, joined by newlines: no line of the text is two retrieved
\* lines run together.
C4_OutputIsTheLinesJoined ==
    ReturnedOk =>
        Body = join(Flatten([i \in 1..Len(hist) |->
                       Relabeled(hist[i].lines, hist[i].aws_container_name)]),
                    NL)

(***************************************************************************)
(* C5                                                                      *)
(***************************************************************************)
\* C5: the containers add their text in the order list_containers gave them,
\* each at the end of the text so far, and the lines of one container stand
\* in it in the order the split of its output gave them.
C5_Step ==
    Finishes =>
        LET f == unwrap(frame)
            e == Finished
            lines == Retrieved(f)
            added == SubSeq(metrics', Len(metrics) + 1, Len(metrics'))
        IN  /\ e.container_id = Len(hist')
            /\ Len(metrics') >= Len(metrics)
            /\ SubSeq(metrics', 1, Len(metrics)) = metrics
            /\ added # << >> =>
                 /\ Len(split(added, NL)) = Len(lines)
                 /\ \A k \in 1..Len(lines) :
                       split(added, NL)[k] =
                          add_service_name_to_metric_line(
                              lines[k], f.aws_container_name).ret
            /\ pc' = "returned" => result' = Some(Ok(metrics'))
C5_DiscoveryOrderThenLineOrder == [][C5_Step]_vars

\* two containers accepted one after the other, the second with two
\* different lines, and the returned text is the first one's text followed by
\* the second one's
C5_Witness ==
    /\ ReturnedOk
    /\ Len(hist) = 2
    /\ hist[1].appended /\ hist[1].text # << >>
    /\ hist[2].appended /\ Len(hist[2].lines) = 2
    /\ hist[2].lines[1] # hist[2].lines[2]
    /\ Body = hist[1].text \o hist[2].text

(***************************************************************************)
(* C6                                                                      *)
(***************************************************************************)
\* C6: when list_containers answers with no container, or the scrape of every
\* container fails, export_metrics returns a success whose body is the empty
\* text.
C6_NothingScrapedGivesEmptyBody ==
    (/\ Returned
     /\ discovery # None
     /\ ~is_err(unwrap(discovery))
     /\ \A i \in 1..Len(hist) : Failed(hist[i]))
        => /\ Len(hist) = unwrap(discovery).val
           /\ unwrap(result) = Ok(<< >>)

\* two containers, both failed, one of them with lines retrieved
C6_Witness ==
    /\ ReturnedOk
    /\ Len(hist) = 2
    /\ \A i \in 1..Len(hist) : Failed(hist[i])
    /\ \E i \in 1..Len(hist) : hist[i].stream = "StdOut"
    /\ Body = << >>

(***************************************************************************)
(* The relabeler, line by line, said from the characters of the line.      *)
(***************************************************************************)
RIn == unwrap(r_in)
ROut == unwrap(r_out)
Relabeling == r_out # None

\* the first character that is not white space is a '#'
IsComment(line) ==
    \E k \in 1..Len(line) :
        /\ line[k] = "#"
        /\ \A j \in 1..(k - 1) : line[j] \in WhiteSpace
Has(line, c) == \E k \in 1..Len(line) : line[k] = c
\* the 1-based place of the first c of a line that has one
First(line, c) ==
    CHOOSE k \in 1..Len(line) :
        line[k] = c /\ \A j \in 1..(k - 1) : line[j] # c

ExampleLabeledOut ==
    <<"h", "t", "t", "p", "_", "r", "e", "q", "u", "e", "s", "t", "s", "_",
      "t", "o", "t", "a", "l", "{", "c", "o", "n", "t", "a", "i", "n", "e",
      "r", "_", "n", "a", "m", "e", "=", "w", "e", "b", "1", ",", "m", "e",
      "t", "h", "o", "d", "=", "\"", "G", "E", "T", "\"", "}", " ", "5">>
ExampleUnlabeledOut ==
    <<"h", "t", "t", "p", "_", "r", "e", "q", "u", "e", "s", "t", "s", "_",
      "t", "o", "t", "a", "l", "{", "c", "o", "n", "t", "a", "i", "n", "e",
      "r", "_", "n", "a", "m", "e", "=", "w", "e", "b", "1", "}", " ", "5">>

(***************************************************************************)
(* C7                                                                      *)
(***************************************************************************)
\* C7: a line whose trimmed form starts with '#' is returned as it was given,
\* untrimmed, whatever the name and whatever else the line holds.
C7_CommentReturnedVerbatim ==
    Relabeling =>
        \A i \in 1..Len(RIn.lines) :
            IsComment(RIn.lines[i]) => ROut.rets[i] = RIn.lines[i]

\* a comment that starts with a space and holds a brace came back unchanged
C7_Witness ==
    /\ Relabeling
    /\ RIn.lines[1] = <<" ", "#", "{">>
    /\ ROut.rets[1] = <<" ", "#", "{">>

(***************************************************************************)
(* C8                                                                      *)
(***************************************************************************)
\* C8: a line that is no comment and holds a '{' is returned with
\* container_name=<name>, put right after its first '{' and nothing else
\* changed, also when a space stands before the brace; the labeled sample of
\* the documentation gives the documented line.
C8_LabelPutAfterFirstBrace ==
    Relabeling =>
        \A i \in 1..Len(RIn.lines) :
            LET line == RIn.lines[i]
            IN  /\ (~IsComment(line) /\ Has(line, "{")) =>
                     ROut.rets[i] =
                        SubSeq(line, 1, First(line, "{"))
                           \o CONTAINER_NAME_EQ \o RIn.name \o <<",">>
                           \o SubSeq(line, First(line, "{") + 1, Len(line))
                /\ (line = ExampleLabeled /\ RIn.name = ExampleName) =>
                     ROut.rets[i] = ExampleLabeledOut

\* a line with a space before its brace got the label after the brace
C8_Witness ==
    /\ Relabeling
    /\ RIn.lines[1] = <<"a", " ", "{">>
    /\ RIn.name = <<"w">>
    /\ ROut.rets[1] = <<"a", " ", "{">> \o CONTAINER_NAME_EQ \o <<"w", ",">>

(***************************************************************************)
(* C9                                                                      *)
(***************************************************************************)
\* C9: a line that is no comment, holds no '{' and holds a space is returned
\* as the text before its first space, then {container_name=<name>}, then the
\* rest of the line from that space on; the unlabeled sample of the
\* documentation gives the documented line.
C9_LabelGroupPutBeforeFirstSpace ==
    Relabeling =>
        \A i \in 1..Len(RIn.lines) :
            LET line == RIn.lines[i]
            IN  /\ (~IsComment(line) /\ ~Has(line, "{") /\ Has(line, " ")) =>
                     ROut.rets[i] =
                        SubSeq(line, 1, First(line, " ") - 1)
                           \o <<"{">> \o CONTAINER_NAME_EQ \o RIn.name
                           \o <<"}">>
                           \o SubSeq(line, First(line, " "), Len(line))
                /\ (line = ExampleUnlabeled /\ RIn.name = ExampleName) =>
                     ROut.rets[i] = ExampleUnlabeledOut

\* the unlabeled sample of the documentation, relabeled for web1
C9_Witness ==
    /\ Relabeling
    /\ RIn.lines[1] = ExampleUnlabeled
    /\ RIn.name = ExampleName
    /\ ROut.rets[1] = ExampleUnlabeledOut

(***************************************************************************)
(* C10                                                                     *)
(***************************************************************************)
\* C10: a line that is no comment and holds neither '{' nor a space (the
\* empty line too) is returned unchanged and logged by the info!; the lines
\* before and after it are all still in the joined text.
C10_WeirdLineReturnedAndLogged ==
    Relabeling =>
        /\ Len(ROut.rets) = Len(RIn.lines)
        /\ ROut.text = join(ROut.rets, NL)
        /\ \A i \in 1..Len(RIn.lines) :
              LET line == RIn.lines[i]
                  weird == ~IsComment(line) /\ ~Has(line, "{")
                              /\ ~Has(line, " ")
              IN  /\ weird => ROut.rets[i] = line
                  /\ weird <=> \E k \in 1..Len(ROut.infos) :
                                  ROut.infos[k] = line
        /\ Len(ROut.infos) =
             Cardinality({ i \in 1..Len(RIn.lines) :
                             LET line == RIn.lines[i]
                             IN  ~IsComment(line) /\ ~Has(line, "{")
                                    /\ ~Has(line, " ") })

\* an empty line before a sample line: the empty line is logged and kept, and
\* the sample line after it is relabeled in the text
C10_Witness ==
    /\ Relabeling
    /\ RIn.lines = << << >>, <<"a", " ", "a">> >>
    /\ RIn.name = <<"w">>
    /\ ROut.infos = << << >> >>
    /\ ROut.text = <<NL, "a", "{">> \o CONTAINER_NAME_EQ
                      \o <<"w", "}", " ", "a">>

(***************************************************************************)
(* C11                                                                     *)
(***************************************************************************)
\* the value a container has for a label: none without a label map, without
\* the key, or with an empty value
ValueOf(labels, key) ==
    IF labels = None THEN None
    ELSE IF key \notin DOMAIN unwrap(labels) THEN None
    ELSE IF unwrap(labels)[key] = << >> THEN None
    ELSE Some(unwrap(labels)[key])

\* C11: the command created for a container targets http://localhost:<value>
\* with the container's value for the marker label, and
\* http://localhost:9100/metrics when it has no value for it: no label map,
\* no such key, or an empty value.
C11_TargetIsMarkerValueOrDefault ==
    frame # None =>
        LET f == unwrap(frame)
            value == ValueOf(f.labels, label_has_metrics)
        IN  f.curl_url =
               CURL_URL_PREFIX \o
                  (IF value = None THEN DEFAULT_SERVICE_PORT_PATH
                   ELSE unwrap(value))

(***************************************************************************)
(* C12                                                                     *)
(***************************************************************************)
\* the display name of a container, from its labels
OwnName(labels) ==
    IF labels = None THEN UNKNOWN_SERVICE_NAME
    ELSE IF ECS_CONTAINER_NAME_LABEL \notin DOMAIN unwrap(labels)
    THEN UNKNOWN_SERVICE_NAME
    ELSE unwrap(labels)[ECS_CONTAINER_NAME_LABEL]

\* C12: the lines a container adds are relabeled with the name of that
\* container: the value of its com.amazonaws.ecs.container-name label, or
\* unknown-service without the label or without a label map; never with the
\* name of another container of the request.
C12_Step ==
    (Finishes /\ Finished.appended) =>
        LET f == unwrap(frame)
        IN  /\ Finished.aws_container_name = OwnName(f.labels)
            /\ Finished.text =
                  join(Relabeled(Retrieved(f), OwnName(f.labels)), NL)
            /\ metrics' = metrics \o Finished.text
C12_LinesCarryOwnName == [][C12_Step]_vars

\* a container named w and a container without a name, each with a sample
\* line: the text has w's label first and unknown-service's after it
C12_Witness ==
    /\ ReturnedOk
    /\ Len(hist) = 2
    /\ hist[1].aws_container_name = <<"w">>
    /\ hist[2].aws_container_name = UNKNOWN_SERVICE_NAME
    /\ hist[1].lines = << <<"a", " ", "a">>, << >> >>
    /\ hist[2].lines = << <<"a", " ", "a">>, << >> >>
    /\ Body = <<"a", "{">> \o CONTAINER_NAME_EQ \o <<"w", "}", " ", "a", NL>>
                \o <<"a", "{">> \o CONTAINER_NAME_EQ \o UNKNOWN_SERVICE_NAME
                \o <<"}", " ", "a", NL>>

(***************************************************************************)
(* C13                                                                     *)
(***************************************************************************)
\* C13: a skipped container leaves the buffer as it was; after each container
\* the buffer is what it was, or what it was followed by all the retrieved
\* lines of that container, relabeled: never by some of them only.  No other
\* step changes the buffer once the loop runs.
C13_Step ==
    LET all == join(Relabeled(Retrieved(unwrap(frame)),
                              unwrap(frame).aws_container_name), NL)
    IN  /\ (Finishes /\ ~Finished.appended) => metrics' = metrics
        /\ Finishes => (metrics' = metrics \/ metrics' = metrics \o all)
        /\ (~Finishes /\ frame # None) => metrics' = metrics
C13_AllLinesOrNone == [][C13_Step]_vars

\* after an accepted container, a container with two lines and a non-zero
\* exit status was skipped: the text is the first one's
C13_Witness ==
    /\ ReturnedOk
    /\ Len(hist) = 2
    /\ hist[1].appended /\ hist[1].text # << >>
    /\ ~hist[2].appended
    /\ hist[2].stream = "StdOut"
    /\ hist[2].inspect = Some(Ok(Some(1)))
    /\ Body = hist[1].text

(***************************************************************************)
(* C14                                                                     *)
(***************************************************************************)
\* C14: the lines retrieved are those of the first collected chunk only: its
\* text, decoded with U+FFFD for an invalid byte and split on newline, when
\* it is standard output; no line when it is standard error, standard input
\* or console; later chunks add nothing.  A detached start, a start error, a
\* stream error or no chunk at all give no result.
C14_LinesOfFirstChunkOnly ==
    (frame # None /\ pc = "await_inspect") =>
        LET f == unwrap(frame)
        IN  IF f.start # Some("Attached") THEN f.curl_output = None
            ELSE IF is_err(unwrap(f.log)) THEN f.curl_output = None
            ELSE IF unwrap(f.log).val = << >> THEN f.curl_output = None
            ELSE LET first == unwrap(f.log).val[1]
                 IN  IF first.kind = "StdOut"
                     THEN f.curl_output =
                            Some(split([i \in 1..Len(first.message) |->
                                          IF first.message[i] = BadByte
                                          THEN ReplacementChar
                                          ELSE first.message[i]], NL))
                     ELSE f.curl_output = Some(<< >>)

\* two lines in the first chunk, and a second standard-output chunk that
\* adds nothing to them
C14_Witness ==
    /\ pc = "await_inspect"
    /\ unwrap(frame).log =
          Some(Ok(<< [kind |-> "StdOut", message |-> <<"a", NL, " ", "a">>],
                     [kind |-> "StdOut", message |-> <<"a">>] >>))
    /\ unwrap(frame).curl_output = Some(<< <<"a">>, <<" ", "a">> >>)

(***************************************************************************)
(* C15                                                                     *)
(***************************************************************************)
\* The calls made before the one at position i of a trace.
Before(trace, i) == { trace[j] : j \in 1..(i - 1) }

\* a call that has returned
Made(op, container_id, exec_id, res) ==
    [op |-> op, container_id |-> container_id, exec_id |-> exec_id,
     res |-> res]

\* What holds of the call at position i of a trace at the time it is made,
\* when done containers are finished.
InOrder(trace, i, done) ==
    LET e == trace[i]
        c == e.container_id
        x == e.exec_id
    IN  /\ e.res = "pending"
        /\ \A b \in Before(trace, i) : b.res # "pending"
        /\ e.op = "list_containers" => i = 1
        /\ e.op # "list_containers" =>
              Made("list_containers", 0, 0, "Ok") \in Before(trace, i)
        /\ \A b \in Before(trace, i) : b.container_id <= c
        /\ e.op = "create_exec" =>
              /\ done = c - 1
              /\ \A b \in Before(trace, i) : b.container_id < c
        /\ e.op = "start_exec" =>
              Made("create_exec", c, x, "Ok") \in Before(trace, i)
        /\ e.op = "try_collect" =>
              Made("start_exec", c, x, "Attached") \in Before(trace, i)
        /\ e.op = "inspect_exec" =>
              \E r \in StartAnswers :
                 /\ Made("start_exec", c, x, r) \in Before(trace, i)
                 /\ r = "Attached" =>
                       \E t \in {"Ok", "Err"} :
                          Made("try_collect", c, x, t) \in Before(trace, i)

\* A step changes the trace by the return of the pending call, after which
\* at most one call is made.
OneReturn ==
    (calls # << >> /\ calls' # calls) =>
       /\ calls[Len(calls)].res = "pending"
       /\ Len(calls') \in {Len(calls), Len(calls) + 1}
       /\ calls'[Len(calls)].res # "pending"
       /\ calls'[Len(calls)].op = calls[Len(calls)].op
       /\ calls'[Len(calls)].container_id = calls[Len(calls)].container_id
       /\ \A j \in 1..(Len(calls) - 1) : calls'[j] = calls[j]

C15_Step ==
    /\ OneReturn
    /\ Len(calls') > Len(calls) =>
          InOrder(calls', Len(calls'), Len(hist'))

\* C15: the calls of one invocation come one after the other: a call is made
\* only when the call before it has returned; list_containers is the first
\* and has returned with a list before any call on an exec; start_exec is
\* called on the exec a create_exec of the same container returned;
\* inspect_exec is called when start_exec has returned and, if it attached,
\* the stream has been collected; and create_exec on a container is called
\* when every container before it is finished (appended or skipped) and no
\* call for a later container has been made.
C15_CallsInOrder == [][C15_Step]_vars

\* an invocation has gone through two containers: the first was attached,
\* collected, inspected and appended, the second failed to start and was
\* inspected all the same
C15_Witness ==
    /\ Returned
    /\ Len(hist) = 2
    /\ hist[1].appended
    /\ hist[2].start = Some("Err")
    /\ calls[Len(calls)].op = "inspect_exec"

(***************************************************************************)
(* C16                                                                     *)
(***************************************************************************)
\* The call at position i of a trace repeats nothing: no earlier call of the
\* same operation for the same container, and no earlier use of its exec
\* for another container.
NotRepeated(trace, i) ==
    LET e == trace[i]
    IN  \A b \in Before(trace, i) :
           /\ b.op = e.op => b.container_id # e.container_id
           /\ (e.exec_id # 0 /\ b.exec_id = e.exec_id)
                 => b.container_id = e.container_id

C16_Step ==
    /\ \A i \in {Len(calls), Len(calls')} \ {0} : NotRepeated(calls', i)
    /\ Finishes =>
          LET made(op) == { i \in 1..Len(calls') :
                              /\ calls'[i].op = op
                              /\ calls'[i].container_id
                                    = Finished.container_id }
          IN  /\ Cardinality(made("create_exec")) = 1
              /\ Cardinality(made("start_exec")) <= 1
              /\ Cardinality(made("inspect_exec")) <= 1
    /\ pc' = "returned" =>
          Cardinality({ i \in 1..Len(calls') :
                          calls'[i].op = "list_containers" }) = 1

\* C16: nothing is tried twice: an invocation calls list_containers once,
\* and for a container it calls create_exec once, start_exec at most once
\* and inspect_exec at most once, whatever these calls answer; an exec is
\* never used for a container other than the one it was created in.
C16_NoRetries == [][C16_Step]_vars

\* an invocation has gone on to a second container after create_exec failed
\* on the first, and to the end after start_exec failed on the second
C16_Witness ==
    /\ Returned
    /\ Len(hist) = 2
    /\ ~hist[1].created
    /\ hist[2].start = Some("Err")
    /\ hist[2].inspect = Some(Err)

(***************************************************************************)
(* C20                                                                     *)
(***************************************************************************)
C20_Step ==
    (Finishes /\ Finished.created) =>
       LET e == Finished
           x == unwrap(e.exec_id)
           inspected == { i \in 1..Len(calls') :
                            /\ calls'[i].op = "inspect_exec"
                            /\ calls'[i].container_id = e.container_id }
       IN  /\ Cardinality(inspected) = 1
           /\ \A i \in inspected :
                 calls'[i] = Made("inspect_exec", e.container_id, x,
                                  unwrap(e.inspect).tag)
           /\ e.inspect \in {Some(Err), Some(Ok(None))} =>
                 /\ ~e.appended
                 /\ metrics' = metrics
                 /\ IF containers = << >>
                    THEN pc' = "returned" /\ result' = Some(Ok(metrics))
                    ELSE /\ pc' = "await_create"
                         /\ unwrap(frame').container_id
                               = unwrap(Head(containers).id)

\* C20: a container whose create_exec succeeded has its exec inspected once,
\* and the container is finished when that inspect_exec returns, also when
\* start_exec failed or detached or the stream ended with an error; when
\* inspect_exec fails or gives no exit code the container adds nothing to the
\* output, whatever lines were retrieved, and the invocation goes on to the
\* next container, or returns the output if there is none.
C20_InspectedOnceAndMissingStatusSkips == [][C20_Step]_vars

\* a container gave lines and no exit code, and the next one, whose exec
\* detached, was inspected all the same
C20_Witness ==
    /\ Len(hist) = 2
    /\ hist[1].has_output
    /\ hist[1].stream = "StdOut"
    /\ hist[1].inspect = Some(Ok(None))
    /\ hist[2].start = Some("Detached")
    /\ hist[2].inspect = Some(Err)

(***************************************************************************)
(* C17                                                                     *)
(***************************************************************************)
Awaits ==
    {"await_list", "await_create", "await_start", "await_collect",
     "await_inspect"}

\* While a call is pending nothing of the invocation changes but by the
\* return of that call.
C17_Step ==
    (pc \in Awaits /\ pipeline_vars' # pipeline_vars) =>
       /\ calls[Len(calls)].res = "pending"
       /\ Len(calls') >= Len(calls)
       /\ calls'[Len(calls)].res # "pending"
       /\ calls'[Len(calls)].op = calls[Len(calls)].op
       /\ calls'[Len(calls)].container_id = calls[Len(calls)].container_id

\* C17: when every pending call returns, an invocation that has been made
\* returns a result; and an invocation that waits for a call does nothing
\* until that call returns: it neither returns nor goes on to another
\* container, so it waits for ever if the call never returns.
C17_ReturnsIfCallsReturn ==
    /\ (pc = "await_list") ~> Returned
    /\ [][C17_Step]_vars

\* an invocation has returned after every kind of call was made, on the
\* last of its containers
C17_Witness ==
    /\ ReturnedOk
    /\ Len(hist) = MaxContainers
    /\ \A i \in 1..Len(hist) : hist[i].stream # "NotCollected"
    /\ calls[Len(calls)].op = "inspect_exec"

(***************************************************************************)
(* C18                                                                     *)
(***************************************************************************)
\* the two invocations
Invocations == {locals} \cup (IF is_none(other) THEN {} ELSE {unwrap(other)})

\* What an invocation appends for its containers, from the answers to its
\* own calls: the relabeled lines of each container that was accepted.
OwnTexts(l) ==
    [i \in 1..Len(l.hist) |->
        IF l.hist[i].appended
        THEN join(Relabeled(l.hist[i].lines, l.hist[i].aws_container_name),
                  NL)
        ELSE << >>]

\* What an invocation returns when it runs alone and is given the answers it
\* got.
Alone(l) ==
    IF l.discovery = Some(Err) THEN Err ELSE Ok(Flatten(OwnTexts(l)))

\* the execs an invocation called the daemon with
ExecsOf(l) ==
    { l.calls[i].exec_id :
        i \in { j \in 1..Len(l.calls) :
                  l.calls[j].op \in {"start_exec", "try_collect",
                                     "inspect_exec"} } }

\* the execs the daemon created for an invocation
CreatedFor(l) ==
    { l.calls[i].exec_id :
        i \in { j \in 1..Len(l.calls) :
                  /\ l.calls[j].op = "create_exec"
                  /\ l.calls[j].res = "Ok" } }

\* C18: with two invocations that overlap in any way, an invocation that
\* has returned has returned what it returns alone with the answers to its
\* own calls; while it goes through its containers its buffer holds what
\* it appended itself, and nothing else; and it calls the daemon with the
\* execs that were created for it, none of which the other one uses.
C18_InvocationsDoNotInterfere ==
    /\ \A l \in Invocations :
          /\ l.pc = "returned" => l.result = Some(Alone(l))
          /\ l.pc \in {"await_create", "await_start", "await_collect",
                        "await_inspect"}
                => l.metrics = Flatten(OwnTexts(l))
          /\ ExecsOf(l) \subseteq CreatedFor(l)
    /\ ~is_none(other) => ExecsOf(locals) \cap ExecsOf(unwrap(other)) = {}

\* an invocation has returned lines while the other one, which had its exec
\* created first, still waits for inspect_exec with lines of its own
C18_Witness ==
    /\ ~is_none(other)
    /\ ReturnedOk
    /\ Len(hist) = 1
    /\ hist[1].appended
    /\ hist[1].exec_id = Some(2)
    /\ Body # << >>
    /\ unwrap(other).pc = "await_inspect"
    /\ unwrap(unwrap(other).frame).exec_id = Some(1)
    /\ unwrap(unwrap(other).frame).curl_output \notin {None, Some(<< >>)}

(***************************************************************************)
(* C19                                                                     *)
(***************************************************************************)
\* the answers an invocation got: that of list_containers, and for each
\* container its name, what create_exec, start_exec and inspect_exec
\* answered, how the stream ended and the lines it gave
Responses(l) ==
    << l.discovery,
       [i \in 1..Len(l.hist) |->
          [ aws_container_name |-> l.hist[i].aws_container_name,
            created            |-> l.hist[i].created,
            start              |-> l.hist[i].start,
            stream             |-> l.hist[i].stream,
            has_output         |-> l.hist[i].has_output,
            lines              |-> l.hist[i].lines,
            inspect            |-> l.hist[i].inspect ]] >>

\* the containers list_containers gave an invocation
Discovered(l) ==
    IF is_none(l.discovery) \/ is_err(unwrap(l.discovery)) THEN {}
    ELSE 1..unwrap(l.discovery).val

\* C19: an invocation starts with a list_containers call of its own, the
\* only one it makes; it comes to its first container with an empty buffer,
\* whatever was there before; it makes calls for, and keeps results of, the
\* containers of its own list only; and two invocations that have returned
\* and were given the same answers have returned the same result.
C19_NothingCarriedOver ==
    /\ \A l \in Invocations :
          /\ l.pc # "idle" =>
                /\ l.calls # << >>
                /\ l.calls[1].op = "list_containers"
                /\ \A i \in 2..Len(l.calls) :
                      l.calls[i].op # "list_containers"
          /\ (l.pc = "await_create" /\ l.hist = << >>) => l.metrics = << >>
          /\ \A i \in 1..Len(l.hist) :
                l.hist[i].container_id \in Discovered(l)
          /\ \A i \in 1..Len(l.calls) :
                l.calls[i].container_id \in Discovered(l) \cup {0}
    /\ \A l1, l2 \in Invocations :
          (/\ l1.pc = "returned"
           /\ l2.pc = "returned"
           /\ Responses(l1) = Responses(l2)) => l1.result = l2.result

\* two invocations have returned, each on its own exec, with the same
\* answers and lines in them
C19_Witness ==
    /\ ~is_none(other)
    /\ ReturnedOk
    /\ unwrap(other).pc = "returned"
    /\ Responses(locals) = Responses(unwrap(other))
    /\ Len(hist) = 1
    /\ hist[1].appended
    /\ Body # << >>
    /\ hist[1].exec_id # unwrap(other).hist[1].exec_id

====
